---- MODULE Spec2Model ----
(***************************************************************************)
(* Model of src/compiler/msvc.rs, the MSVC backend of the compilation      *)
(* cache.                                                                  *)
(*                                                                         *)
(* parse_arguments is a pure function of a list of tokens.  Tokens are     *)
(* strings, and the function is the recursive operator parse_arguments,    *)
(* applied by the action ParseArguments of SpecParse to every argument     *)
(* list of IsArgList.                                                      *)
(*                                                                         *)
(* compile is a chain of futures.  SpecCompile has one action for each     *)
(* step of the call and of the chain, the pool thread that writes the      *)
(* temporary file, and the environment that creates and deletes files      *)
(* while the call is under way.                                            *)
(*                                                                         *)
(* preprocess runs the compiler once and maps its output.  SpecPreprocess  *)
(* has one action for the call and one for each way the run and the        *)
(* closure over its output can end, over the stderr texts of               *)
(* PreprocessInputs, in both builds of normpath.                           *)
(*                                                                         *)
(* detect_showincludes_prefix writes a test source, runs the compiler on   *)
(* it and searches the decoded stdout.  SpecDetect has one action for each *)
(* step, over the stdout texts built from StdoutLines.                     *)
(***************************************************************************)
EXTENDS Integers, Sequences, FiniteSets, TLC

VARIABLES
    arguments,   \* parse_arguments: the argument list it is called with
    result,      \* parse_arguments: <<>> before the call, the verdict in a tuple after
    parsed_args, \* compile: the ParsedArguments it is called with
    children,    \* compile: the outcomes the command creator hands out, in order
    fs,          \* the files that exist on disk (among FsPaths)
    pc,          \* compile: the position of the call and of its future chain
    cacheable,   \* compile: the local `cacheable`, "unset" before line 335
    write,       \* compile: the future of write_temp_file
    tempdir,     \* compile: the temporary directory: "none", "exists", "removed"
    cmds,        \* compile: the commands taken from the creator, in order
    runs,        \* compile: the commands handed to run_input_output, with outcome
    ret,         \* compile: <<>> while pending, then the value of the future
    fs_at_call,  \* history: the files that existed when compile was called
    cfg_windows, \* preprocess: the build is the cfg(windows) one
    stdout_bytes, \* the bytes the compiler process writes to its stdout
    stderr_bytes, \* the bytes the compiler process writes to its stderr
    dep_file,    \* preprocess: the file `f`: <<>>, or its path and text
    io_fail      \* preprocess: the file operation that fails: none, create, write

parseVars == <<arguments, result>>
compileVars == <<parsed_args, children, fs, pc, cacheable, write, tempdir,
                 cmds, runs, ret, fs_at_call>>
preprocessVars == <<cfg_windows, stdout_bytes, stderr_bytes, dep_file, io_fail>>
vars == <<arguments, result, parsed_args, children, fs, pc, cacheable, write,
          tempdir, cmds, runs, ret, fs_at_call, cfg_windows, stdout_bytes,
          stderr_bytes, dep_file, io_fail>>

(***************************************************************************)
(* Bounds of the model.                                                    *)
(***************************************************************************)
MaxArgs == 6
MaxExtra == 1

(***************************************************************************)
(* Strings and Option values.                                              *)
(***************************************************************************)
None == <<>>
Some(v) == <<v>>
IsSome(o) == o # <<>>
Unwrap(o) == o[1]

\* str::starts_with
StartsWith(v, p) == Len(v) >= Len(p) /\ SubSeq(v, 1, Len(p)) = p

\* &v[n - 1..]: the slice starts one character early
SliceFrom_OneEarly(v, n) == SubSeq(v, n, Len(v))

\* &v[n..]
SliceFrom(v, n) == SubSeq(v, n + 1, Len(v))

\* the largest index at which character c occurs in s, 0 when it does not
RECURSIVE LastIndexOf(_, _, _)
LastIndexOf(s, c, i) ==
    IF i = 0 THEN 0
    ELSE IF SubSeq(s, i, i) = c THEN i
    ELSE LastIndexOf(s, c, i - 1)

\* the smallest index >= i at which character c occurs in s, 0 when none
RECURSIVE IndexOf(_, _, _)
IndexOf(s, c, i) ==
    IF i > Len(s) THEN 0
    ELSE IF SubSeq(s, i, i) = c THEN i
    ELSE IndexOf(s, c, i + 1)

\* the pieces of s between the separators c
RECURSIVE Split(_, _)
Split(s, c) ==
    LET i == IndexOf(s, c, 1)
    IN  IF i = 0 THEN <<s>>
        ELSE <<SubSeq(s, 1, i - 1)>> \o Split(SliceFrom(s, i), c)

\* Path::file_name: the last component of the path when it is a normal one
\* (empty components and "." are not components; ".." has no file name)
FileName(path) ==
    LET comps == SelectSeq(Split(path, "/"), LAMBDA p : p # "" /\ p # ".")
    IN  IF comps = <<>> \/ comps[Len(comps)] = ".." THEN None
        ELSE Some(comps[Len(comps)])

\* Path::extension: the text after the last '.' of the file name; none when
\* there is no file name, no '.', or the only '.' is the first character
Extension(path) ==
    LET name == FileName(path)
    IN  IF ~IsSome(name) THEN None
        ELSE LET f == Unwrap(name)
                 d == LastIndexOf(f, ".", Len(f))
             IN  IF d <= 1 THEN None ELSE Some(SliceFrom(f, d))

(***************************************************************************)
(* parse_arguments                                                         *)
(***************************************************************************)
NotCompilation == <<"NotCompilation">>
CannotCache == <<"CannotCache">>
Ok(parsed) == <<"Ok", parsed>>

\* the list without its last flag
MultiOutputFlags_WithoutFx == {"-FA", "-Fa", "-Fe", "-Fm", "-Fp", "-FR"}

\* "-FA" | "-Fa" | "-Fe" | "-Fm" | "-Fp" | "-FR" | "-Fx"
MultiOutputFlags == {"-FA", "-Fa", "-Fe", "-Fm", "-Fp", "-FR", "-Fx"}

\* the locals of parse_arguments before the scan
ScanInit ==
    [output_arg |-> None, input_arg |-> None, common_args |-> <<>>,
     compilation |-> FALSE, debug_info |-> FALSE, pdb |-> None,
     depfile |-> None]

\* -FI takes no value
TakeValue_None(args, i) == <<>>

\* line 125: the value -FI takes: the next token, when there is one
TakeValue(args, i) == IF i < Len(args) THEN <<args[i + 1]>> ELSE <<>>

\* a later input file replaces an earlier one
HasInput_Never(st) == FALSE

\* line 152: an input file was seen already
HasInput(st) == IsSome(st.input_arg)

\* the first -Fo of the list is kept
OutputArg_KeepFirst(st, arg) ==
    IF IsSome(st.output_arg) THEN st.output_arg ELSE Some(SliceFrom(arg, 3))

\* line 120: the output path a -Fo token sets
OutputArg(st, arg) == Some(SliceFrom(arg, 3))

\* the option is put ahead of the arguments collected so far
PassThrough_Prepend(common, arg) == <<arg>> \o common

\* line 148: any other option is pushed onto common_args
PassThrough(common, arg) == Append(common, arg)

\* the scan loop from position i with locals st: <<"return", verdict>> on an
\* early return, <<"break", locals>> when the iterator is exhausted
RECURSIVE Scan(_, _, _)
Scan(args, i, st) ==
    IF i > Len(args) THEN <<"break", st>>
    ELSE LET arg == args[i] IN
      IF arg = "-c" THEN
          Scan(args, i + 1, [st EXCEPT !.compilation = TRUE])
      ELSE IF StartsWith(arg, "-Fo") THEN
          Scan(args, i + 1, [st EXCEPT !.output_arg = OutputArg(st, arg)])
      ELSE IF arg = "-FI" THEN
          LET val == TakeValue(args, i)
          IN  Scan(args, i + 1 + Len(val),
                   [st EXCEPT !.common_args = (@ \o <<arg>>) \o val])
      ELSE IF StartsWith(arg, "-deps") THEN
          Scan(args, i + 1, [st EXCEPT !.depfile = Some(SliceFrom(arg, 5))])
      ELSE IF arg = "-showIncludes" THEN <<"return", CannotCache>>
      ELSE IF StartsWith(arg, "@") THEN <<"return", CannotCache>>
      ELSE IF arg \in MultiOutputFlags THEN <<"return", CannotCache>>
      ELSE IF arg = "-Zi" THEN
          Scan(args, i + 1, [st EXCEPT !.debug_info = TRUE,
                                       !.common_args = Append(@, arg)])
      ELSE IF StartsWith(arg, "-Fd") THEN
          Scan(args, i + 1, [st EXCEPT !.pdb = Some(SliceFrom(arg, 3)),
                                       !.common_args = Append(@, arg)])
      ELSE IF StartsWith(arg, "-") /\ Len(arg) > 1 THEN
          Scan(args, i + 1, [st EXCEPT !.common_args = PassThrough(@, arg)])
      ELSE IF HasInput(st) THEN <<"return", CannotCache>>
      ELSE Scan(args, i + 1, [st EXCEPT !.input_arg = Some(arg)])

\* -Zi without -Fd is let through
MissingPdb_Never(st) == FALSE

\* lines 187-196: -Zi was given without -Fd
MissingPdb(st) == st.debug_info /\ ~IsSome(st.pdb)

\* the "pdb" output is not recorded
Outputs_ObjOnly(o, debug_info, pdb) == ("obj" :> o)

\* lines 180-197: the outputs map: "obj", and "pdb" when -Zi and -Fd were given
Outputs(o, debug_info, pdb) ==
    IF debug_info /\ IsSome(pdb) THEN ("obj" :> o) @@ ("pdb" :> Unwrap(pdb))
    ELSE ("obj" :> o)

\* the checks after the scan with the input check ahead of the compilation
\* check
PostScan_InputFirst(st) ==
    IF ~IsSome(st.input_arg) THEN CannotCache
    ELSE IF ~st.compilation THEN NotCompilation
    ELSE IF ~IsSome(Extension(Unwrap(st.input_arg))) THEN CannotCache
    ELSE IF ~IsSome(st.output_arg) THEN CannotCache
    ELSE IF MissingPdb(st) THEN CannotCache
    ELSE Ok([input |-> Unwrap(st.input_arg),
             extension |-> Unwrap(Extension(Unwrap(st.input_arg))),
             depfile |-> st.depfile,
             outputs |-> Outputs(Unwrap(st.output_arg), st.debug_info, st.pdb),
             preprocessor_args |-> <<>>,
             common_args |-> st.common_args])

\* the checks after the scan, on the locals st
PostScan(st) ==
    IF ~st.compilation THEN NotCompilation
    ELSE IF ~IsSome(st.input_arg) THEN CannotCache
    ELSE IF ~IsSome(Extension(Unwrap(st.input_arg))) THEN CannotCache
    ELSE IF ~IsSome(st.output_arg) THEN CannotCache
    ELSE IF MissingPdb(st) THEN CannotCache
    ELSE Ok([input |-> Unwrap(st.input_arg),
             extension |-> Unwrap(Extension(Unwrap(st.input_arg))),
             depfile |-> st.depfile,
             outputs |-> Outputs(Unwrap(st.output_arg), st.debug_info, st.pdb),
             preprocessor_args |-> <<>>,
             common_args |-> st.common_args])

parse_arguments(args) ==
    LET s == Scan(args, 1, ScanInit)
    IN  IF s[1] = "return" THEN s[2] ELSE PostScan(s[2])

(***************************************************************************)
(* The inputs of parse_arguments and the specification that applies it.    *)
(***************************************************************************)
\* the tokens of a debug compile with a forced include, each of which occurs
\* at most once in an argument list, in any order
CoreTokens == {"-c", "-Foa.o", "-FI", "-Zi", "-Fdp", "a.c"}

\* the further tokens of an argument list: unsupported ones, a second input
\* (without extension), a plain flag, a dependency file, a second output and
\* a second forced include
ExtraTokens ==
    {"-showIncludes", "@r", "-FA", "-Fa", "-Fx", "b", "-W", "-depsd", "-Foq",
     "-FI"}

\* the lists of k distinct core tokens
CoreLists(k) ==
    {c \in [1..k -> CoreTokens] : \A i, j \in 1..k : i # j => c[i] # c[j]}

\* the list that holds the tokens of extra at their positions and the tokens
\* of core, in order, at the others
Merge(core, extra) ==
    [i \in 1..(Len(core) + Cardinality(DOMAIN extra)) |->
        IF i \in DOMAIN extra THEN extra[i]
        ELSE core[i - Cardinality({p \in DOMAIN extra : p < i})]]

\* the argument lists of the model: up to MaxArgs tokens, the core tokens in
\* any order and up to MaxExtra of the further tokens, anywhere
IsArgList(args) ==
    \E k \in 0..Cardinality(CoreTokens) :
      \E e \in 0..MaxExtra :
        /\ k + e <= MaxArgs
        /\ \E core \in CoreLists(k) :
             \E P \in {Q \in SUBSET (1..(k + e)) : Cardinality(Q) = e} :
               \E extra \in [P -> ExtraTokens] :
                 args = Merge(core, extra)

\* the files the model's file system may hold
FsPaths == {"/t/foo.pdb", "/u/foo.pdb"}

\* the outcomes of a child: an exit status, or an error running it
ChildOutcomes == {"exit0", "exit1", "error"}

\* command lines whose ParsedArguments compile is called with
CompileLines ==
    {<<"-c", "foo.c", "-Fofoo.obj">>,
     <<"-c", "foo.c", "-Zi", "-Fdfoo.pdb", "-Fofoo.obj">>,
     <<"-c", "d/foo.c", "-W", "-Zi", "-Fd/u/foo.pdb", "-Fofoo.obj">>}

\* ParsedArguments that parse_arguments does not produce: no "obj" output,
\* an input without file name
Malformed ==
    {[input |-> "foo.c", extension |-> "c", depfile |-> None,
      outputs |-> ("pdb" :> "foo.pdb"), preprocessor_args |-> <<>>,
      common_args |-> <<>>],
     [input |-> "..", extension |-> "c", depfile |-> None,
      outputs |-> ("obj" :> "foo.obj"), preprocessor_args |-> <<>>,
      common_args |-> <<>>]}

CompileInputs == {parse_arguments(a)[2] : a \in CompileLines} \cup Malformed

\* the state of a compile call that has not been made
CompileIdle ==
    /\ parsed_args = <<>>
    /\ children = <<>>
    /\ fs = {}
    /\ pc = "idle"
    /\ cacheable = "unset"
    /\ write = "none"
    /\ tempdir = "none"
    /\ cmds = <<>>
    /\ runs = <<>>
    /\ ret = <<>>
    /\ fs_at_call = {}

\* the state of a preprocess call that has not been made
PreprocessIdle ==
    /\ cfg_windows = FALSE
    /\ stdout_bytes = ""
    /\ stderr_bytes = ""
    /\ dep_file = <<>>
    /\ io_fail = "none"

InitParse ==
    /\ IsArgList(arguments)
    /\ result = <<>>
    /\ CompileIdle
    /\ PreprocessIdle

ParseArguments ==
    /\ pc = "idle"
    /\ result = <<>>
    /\ result' = <<parse_arguments(arguments)>>
    /\ UNCHANGED arguments
    /\ UNCHANGED compileVars
    /\ UNCHANGED preprocessVars

NextParse == ParseArguments

SpecParse == InitParse /\ [][NextParse]_vars

Done == result # <<>>
Verdict == result[1]

(***************************************************************************)
(* Properties of parse_arguments, checked under SpecParse.                 *)
(***************************************************************************)
\* the positions of args whose token the scan matches against its rules: all
\* but those taken as the value of a -FI
RECURSIVE ScannedFrom(_, _)
ScannedFrom(args, i) ==
    IF i > Len(args) THEN {}
    ELSE {i} \cup ScannedFrom(args, IF args[i] = "-FI" THEN i + 2 ELSE i + 1)

Scanned(args) == ScannedFrom(args, 1)

FlagShaped(tok) == StartsWith(tok, "-")

\* tok without its first n characters
Rest(tok, n) == SubSeq(tok, n + 1, Len(tok))

Unsupported(tok) ==
    \/ tok \in {"-FA", "-Fa", "-Fe", "-Fm", "-Fp", "-FR", "-Fx"}
    \/ tok = "-showIncludes"
    \/ StartsWith(tok, "@")

\* the text after the last '.' of name (all of it when it has none)
AfterLastDot(name) == Rest(name, LastIndexOf(name, ".", Len(name)))

\* the path has a file name with a '.' after its first character
HasExtension(path) ==
    /\ IsSome(FileName(path))
    /\ LastIndexOf(Unwrap(FileName(path)), ".", Len(Unwrap(FileName(path)))) > 1

IsOk == Done /\ Verdict[1] = "Ok"
Parsed == Verdict[2]

\* C1: an argument list without the token "-c" is classified NotCompilation,
\* whatever its other tokens are.
C1_NoCompileFlagIsNotCompilation ==
    (Done /\ \A i \in DOMAIN arguments : arguments[i] # "-c")
        => Verdict = NotCompilation

\* the positions among S of the tokens that begin with prefix
WithPrefix(S, prefix) == {i \in S : StartsWith(arguments[i], prefix)}

\* the positions among S of the tokens that are not flag-shaped
NonFlags(S) == {i \in S : ~FlagShaped(arguments[i])}

\* Ok with the token at position j as input, its extension, and the path of
\* the -Fo token at position f as the "obj" output
OkWith(j, f) ==
    /\ IsOk
    /\ Parsed.input = arguments[j]
    /\ Parsed.extension = AfterLastDot(Unwrap(FileName(arguments[j])))
    /\ "obj" \in DOMAIN Parsed.outputs
    /\ Parsed.outputs["obj"] = Rest(arguments[f], 3)

C2_Case ==
    LET S == Scanned(arguments) IN
    /\ \E i \in S : arguments[i] = "-c"
    /\ Cardinality(WithPrefix(S, "-Fo")) = 1
    /\ Cardinality(NonFlags(S)) = 1
    /\ \A i \in NonFlags(S) : HasExtension(arguments[i])
    /\ \A i \in S : Len(arguments[i]) > 1 /\ ~Unsupported(arguments[i])
    /\ (\E i \in S : arguments[i] = "-Zi") => WithPrefix(S, "-Fd") # {}

C3_TwoInputsCannotCache ==
    (Done /\ Cardinality(NonFlags(DOMAIN arguments)) >= 2)
        => Verdict = CannotCache

\* C3 amended: two scanned tokens that are not flag-shaped give CannotCache.
C3_TwoScannedInputsCannotCache ==
    (Done /\ Cardinality(NonFlags(Scanned(arguments))) >= 2)
        => Verdict = CannotCache

\* the second input is the only reason not to cache
C3_Witness ==
    /\ Done
    /\ Cardinality(NonFlags(Scanned(arguments))) >= 2
    /\ \A i \in DOMAIN arguments : ~Unsupported(arguments[i])
    /\ \E i \in Scanned(arguments) : arguments[i] = "-c"
    /\ WithPrefix(Scanned(arguments), "-Fo") # {}

\* C4 as stated: "-Zi" and no token beginning with "-Fd" give CannotCache.
C4_DebugInfoWithoutPdbCannotCache ==
    (/\ Done
     /\ \E i \in DOMAIN arguments : arguments[i] = "-Zi"
     /\ WithPrefix(DOMAIN arguments, "-Fd") = {})
        => Verdict = CannotCache

\* the case of C4 as amended
C4_Case ==
    LET S == Scanned(arguments) IN
    /\ \E i \in S : arguments[i] = "-c"
    /\ \E i \in S : arguments[i] = "-Zi"
    /\ WithPrefix(S, "-Fd") = {}

\* C4 amended: a scanned "-c", a scanned "-Zi" and no scanned token
\* beginning with "-Fd" give CannotCache.
C4_CompileDebugInfoWithoutPdbCannotCache ==
    (Done /\ C4_Case) => Verdict = CannotCache

\* -Zi without -Fd is the only reason not to cache
C4_Witness ==
    /\ Done
    /\ C4_Case
    /\ Cardinality(NonFlags(Scanned(arguments))) = 1
    /\ \A i \in NonFlags(Scanned(arguments)) : HasExtension(arguments[i])
    /\ WithPrefix(Scanned(arguments), "-Fo") # {}
    /\ \A i \in DOMAIN arguments : ~Unsupported(arguments[i])

IsZiOrFd(tok) == tok = "-Zi" \/ StartsWith(tok, "-Fd")

\* "obj" and "pdb" are the outputs, with the path of a -Fo and of a -Fd token
\* among S, and -Zi and -Fd are passed through in the order of the input
BothOutputs(S) ==
    /\ DOMAIN Parsed.outputs = {"obj", "pdb"}
    /\ \E f \in WithPrefix(S, "-Fo") :
         Parsed.outputs["obj"] = Rest(arguments[f], 3)
    /\ \E d \in WithPrefix(S, "-Fd") :
         Parsed.outputs["pdb"] = Rest(arguments[d], 3)
    /\ SelectSeq(Parsed.common_args, IsZiOrFd) = SelectSeq(arguments, IsZiOrFd)

\* C5 as stated: an Ok list with "-Zi" and a -Fd token has the outputs "obj"
\* and "pdb", and both tokens in common_args in the order of the input.
C5_DebugInfoWithPdbHasBothOutputs ==
    (/\ IsOk
     /\ \E i \in DOMAIN arguments : arguments[i] = "-Zi"
     /\ WithPrefix(DOMAIN arguments, "-Fd") # {})
        => BothOutputs(DOMAIN arguments)

\* the case of C5 as amended
C5_Case ==
    /\ \E i \in Scanned(arguments) : arguments[i] = "-Zi"
    /\ WithPrefix(Scanned(arguments), "-Fd") # {}

\* C5 amended: an Ok list with a scanned "-Zi" and a scanned -Fd token has
\* the outputs "obj" and "pdb", of a scanned -Fo and -Fd token, and both
\* tokens in common_args in the order of the input.
C5_ScannedDebugInfoWithPdbHasBothOutputs ==
    (IsOk /\ C5_Case) => BothOutputs(Scanned(arguments))

C5_Witness ==
    /\ IsOk
    /\ C5_Case
    /\ \E i \in DOMAIN arguments : arguments[i] = "-W"

\* the tokens of l that are neither a scanned -FI nor its value
RECURSIVE WithoutFI(_)
WithoutFI(l) ==
    IF l = <<>> THEN <<>>
    ELSE IF Head(l) = "-FI" THEN WithoutFI(SubSeq(l, 3, Len(l)))
    ELSE <<Head(l)>> \o WithoutFI(Tail(l))

\* each scanned -FI of l with its value, or alone when it is the last token
RECURSIVE FIGroups(_)
FIGroups(l) ==
    IF l = <<>> THEN <<>>
    ELSE IF Head(l) = "-FI"
         THEN <<SubSeq(l, 1, IF Len(l) >= 2 THEN 2 ELSE 1)>>
              \o FIGroups(SubSeq(l, 3, Len(l)))
    ELSE FIGroups(Tail(l))

\* C6: each scanned -FI puts itself and the next token, verbatim and next to
\* each other, into common_args (itself alone when it is the last token), and
\* the next token is matched against no rule: the verdict and the rest of the
\* result are those of the list without the -FI tokens and their values.
C6_ForcedIncludeTakesNextToken ==
    Done =>
      LET rest == parse_arguments(WithoutFI(arguments)) IN
      /\ Verdict[1] = rest[1]
      /\ IsOk =>
           /\ FIGroups(Parsed.common_args) = FIGroups(arguments)
           /\ WithoutFI(Parsed.common_args) = rest[2].common_args
           /\ Parsed.input = rest[2].input
           /\ Parsed.outputs = rest[2].outputs
           /\ Parsed.depfile = rest[2].depfile

\* -FI takes a token that would end the scan
C6_Witness ==
    /\ IsOk
    /\ \E i \in Scanned(arguments) :
         /\ arguments[i] = "-FI"
         /\ i < Len(arguments)
         /\ arguments[i + 1] = "-showIncludes"

\* C7 as stated: an unsupported token at any position gives CannotCache.
C7_UnsupportedCannotCache ==
    (Done /\ \E i \in DOMAIN arguments : Unsupported(arguments[i]))
        => Verdict = CannotCache

\* C7 amended: a scanned unsupported token gives CannotCache.
C7_ScannedUnsupportedCannotCache ==
    (Done /\ \E i \in Scanned(arguments) : Unsupported(arguments[i]))
        => Verdict = CannotCache

\* the unsupported token comes last, after a complete compile command
C7_Witness ==
    /\ Done
    /\ Len(arguments) \in Scanned(arguments)
    /\ Unsupported(arguments[Len(arguments)])
    /\ \E i \in Scanned(arguments) : arguments[i] = "-c"
    /\ \E i \in Scanned(arguments) : arguments[i] = "a.c"
    /\ WithPrefix(Scanned(arguments), "-Fo") # {}

\* the last position of the nonempty set S
Last(S) == CHOOSE i \in S : \A j \in S : j <= i

IsFo(tok) == StartsWith(tok, "-Fo")

\* the tokens of args at the positions from i on that are not in S
RECURSIVE Outside(_, _, _)
Outside(args, S, i) ==
    IF i > Len(args) THEN <<>>
    ELSE (IF i \in S THEN <<>> ELSE <<args[i]>>) \o Outside(args, S, i + 1)

\* C15 as stated: an Ok list with several -Fo tokens has the path of the
\* last -Fo token of the list as "obj", and no -Fo token in common_args.
C15_LastOutputWins ==
    (IsOk /\ Cardinality(WithPrefix(DOMAIN arguments, "-Fo")) >= 2)
        => /\ Parsed.outputs["obj"] =
                Rest(arguments[Last(WithPrefix(DOMAIN arguments, "-Fo"))], 3)
           /\ SelectSeq(Parsed.common_args, IsFo) = <<>>

\* C15 amended: an Ok list with several scanned -Fo tokens has the path of
\* the last scanned -Fo token as "obj", and the -Fo tokens of common_args
\* are those taken as the value of a -FI.
C15_LastScannedOutputWins ==
    (IsOk /\ Cardinality(WithPrefix(Scanned(arguments), "-Fo")) >= 2)
        => /\ Parsed.outputs["obj"] =
                Rest(arguments[Last(WithPrefix(Scanned(arguments), "-Fo"))], 3)
           /\ SelectSeq(Parsed.common_args, IsFo) =
                SelectSeq(Outside(arguments, Scanned(arguments), 1), IsFo)

\* two scanned -Fo tokens with different paths
C15_Witness ==
    /\ IsOk
    /\ \E i, j \in WithPrefix(Scanned(arguments), "-Fo") :
         i < j /\ arguments[i] # arguments[j]

\* the scanned positions whose token the scan takes as an input file: not
\* flag-shaped, or the single character "-"
InputsAmong(S) ==
    {i \in S : ~FlagShaped(arguments[i]) \/ Len(arguments[i]) = 1}

\* the scan returns no verdict of its own: no scanned token is unsupported
\* and at most one is an input
NoEarlyVerdict ==
    LET S == Scanned(arguments) IN
    /\ \A i \in S : ~Unsupported(arguments[i])
    /\ Cardinality(InputsAmong(S)) <= 1

\* the kind of verdict the ordered checks give for what the scan has seen
OrderedVerdict ==
    LET S == Scanned(arguments)
        inputs == InputsAmong(S)
    IN  IF \A i \in S : arguments[i] # "-c" THEN "NotCompilation"
        ELSE IF inputs = {} THEN "CannotCache"
        ELSE IF \E i \in inputs : ~HasExtension(arguments[i])
            THEN "CannotCache"
        ELSE IF WithPrefix(S, "-Fo") = {} THEN "CannotCache"
        ELSE IF (\E i \in S : arguments[i] = "-Zi")
                    /\ WithPrefix(S, "-Fd") = {}
            THEN "CannotCache"
        ELSE "Ok"

\* C20: when the scan ends without a verdict of its own, the checks after it
\* decide in this order: no "-c" seen gives NotCompilation, whatever else is
\* missing; then a missing input or an input without extension gives
\* CannotCache; then a missing -Fo gives CannotCache; then -Zi without -Fd
\* gives CannotCache; otherwise the verdict is Ok.
C20_PostScanChecksInOrder ==
    (Done /\ NoEarlyVerdict) => Verdict[1] = OrderedVerdict

\* no "-c", no input, no -Fo and -Zi without -Fd at once: NotCompilation
C20_Witness ==
    LET S == Scanned(arguments) IN
    /\ Done
    /\ NoEarlyVerdict
    /\ \A i \in S : arguments[i] # "-c"
    /\ InputsAmong(S) = {}
    /\ WithPrefix(S, "-Fo") = {}
    /\ \E i \in S : arguments[i] = "-Zi"
    /\ WithPrefix(S, "-Fd") = {}
    /\ Verdict = NotCompilation

\* the token at position i is passed through: it is the value of a -FI, or
\* it is scanned, flag-shaped with more than one character, and neither
\* "-c", a -Fo token nor a -deps token
Passes(S, i) ==
    \/ i \notin S
    \/ /\ FlagShaped(arguments[i])
       /\ Len(arguments[i]) > 1
       /\ arguments[i] # "-c"
       /\ ~StartsWith(arguments[i], "-Fo")
       /\ ~StartsWith(arguments[i], "-deps")

\* the tokens from position i on that are passed through, in order
RECURSIVE PassedFrom(_, _)
PassedFrom(S, i) ==
    IF i > Len(arguments) THEN <<>>
    ELSE (IF Passes(S, i) THEN <<arguments[i]>> ELSE <<>>)
            \o PassedFrom(S, i + 1)

\* C21: for an argument list classified Ok, common_args is the subsequence
\* of the tokens, in their order, made of every flag-shaped token other than
\* "-c", the -Fo tokens and the -deps tokens, and of every token taken as
\* the value of a -FI; the position of the input file is not part of it; and
\* preprocessor_args is empty.
C21_CommonArgsIsThePassThroughList ==
    IsOk =>
        LET S == Scanned(arguments) IN
        /\ Parsed.common_args = PassedFrom(S, 1)
        /\ \A i \in InputsAmong(S) : ~Passes(S, i)
        /\ Parsed.preprocessor_args = <<>>

\* Ok with a -deps token left out and a -FI passed through with its value
C21_Witness ==
    /\ IsOk
    /\ Len(Parsed.common_args) >= 2
    /\ Parsed.common_args[1] = "-FI"
    /\ \E i \in DOMAIN arguments : StartsWith(arguments[i], "-deps")
    /\ \E i \in DOMAIN arguments : arguments[i] = "-FI"
    /\ Parsed.input = "a.c"

(***************************************************************************)
(* compile                                                                 *)
(***************************************************************************)
\* the working directory compile is called with
Cwd == "/t"

\* the directory write_temp_file creates
TempDir == "/tmp/d"

\* Path::join: an absolute path replaces the base
Join(base, path) ==
    IF StartsWith(path, "/") THEN path
    ELSE IF base = "" \/ SubSeq(base, Len(base), Len(base)) = "/"
         THEN base \o path
    ELSE (base \o "/") \o path

\* the PDB path is looked up as given, not in the working directory
CacheableOf_NotJoined(pa, cwd, files) ==
    IF "pdb" \in DOMAIN pa.outputs
    THEN IF pa.outputs["pdb"] \in files THEN "No" ELSE "Yes"
    ELSE "Yes"

\* See if this compilation will produce a PDB: No when it exists already
CacheableOf(pa, cwd, files) ==
    IF "pdb" \in DOMAIN pa.outputs
    THEN IF Join(cwd, pa.outputs["pdb"]) \in files THEN "No" ELSE "Yes"
    ELSE "Yes"

\* lines 357-359: the arguments of the primary command, before the temporary input is added
PrimaryArgs(pa) ==
    <<"-c", "-Fo" \o pa.outputs["obj"]>> \o pa.common_args

\* the fallback command is built like the primary one, without the source
FallbackArgs_NoInput(pa) ==
    <<"-c", "-Fo" \o pa.outputs["obj"]>> \o pa.common_args

\* lines 376-379: the arguments of the fallback command
FallbackArgs(pa) ==
    <<"-c", pa.input, "-Fo" \o pa.outputs["obj"]>> \o pa.common_args

\* creator.new_command_sync: the next child of the creator, as a command
NewCommand(args) == [child |-> Len(cmds) + 1, args |-> args, cwd |-> Cwd]

\* the process::Output of child k that exited with the given outcome
Output(k, outcome) ==
    [status |-> IF outcome = "exit0" THEN 0 ELSE 1, stdout |-> <<"child", k>>]

\* the test of the status is inverted
Success_Inverted(output) == output.status # 0

\* ExitStatus::success
Success(output) == output.status = 0

Err(msg) == <<"Err", msg>>
OkCompile(tag, output) == <<"Ok", tag, output>>

\* the tag re-read from the file system when the output is returned
ReturnedTag_Recomputed == CacheableOf(parsed_args, Cwd, fs)

\* lines 381-388: the tag the last closure returns: `cacheable`, moved into it
ReturnedTag == cacheable

\* the outcome a command meets when run_input_output runs it
OutcomeOf(cmd) == children[cmd.child]

\* lines 327-344: the object output is resolved and the PDB looked for
CompileCall ==
    /\ pc = "call"
    /\ fs_at_call' = fs
    /\ IF "obj" \notin DOMAIN parsed_args.outputs
       THEN /\ ret' = Err("Missing object file output")
            /\ pc' = "done"
            /\ UNCHANGED cacheable
       ELSE /\ cacheable' = CacheableOf(parsed_args, Cwd, fs)
            /\ pc' = "write"
            /\ UNCHANGED ret
    /\ UNCHANGED <<parsed_args, children, fs, write, tempdir, cmds, runs>>
    /\ UNCHANGED parseVars
    /\ UNCHANGED preprocessVars

\* lines 348-354: the file name of the input, and the write handed to the pool
SpawnWrite ==
    /\ pc = "write"
    /\ IF ~IsSome(FileName(parsed_args.input))
       THEN /\ ret' = Err("missing input filename")
            /\ pc' = "done"
            /\ UNCHANGED write
       ELSE /\ write' = "pending"
            /\ pc' = "cmd1"
            /\ UNCHANGED ret
    /\ UNCHANGED <<parsed_args, children, fs, cacheable, tempdir, cmds, runs,
                   fs_at_call>>
    /\ UNCHANGED parseVars
    /\ UNCHANGED preprocessVars

\* write_temp_file on the pool: the directory and the file are created, or not
WriteTempFile ==
    /\ write = "pending"
    /\ \E ok \in BOOLEAN :
         IF ok THEN write' = "ok" /\ tempdir' = "exists"
         ELSE write' = "err" /\ UNCHANGED tempdir
    /\ UNCHANGED <<parsed_args, children, fs, pc, cacheable, cmds, runs, ret,
                   fs_at_call>>
    /\ UNCHANGED parseVars
    /\ UNCHANGED preprocessVars

\* lines 356-360: the primary command is taken from the creator
NewPrimaryCommand ==
    /\ pc = "cmd1"
    /\ cmds' = Append(cmds, NewCommand(PrimaryArgs(parsed_args)))
    /\ pc' = "cmd2"
    /\ UNCHANGED <<parsed_args, children, fs, cacheable, write, tempdir, runs,
                   ret, fs_at_call>>
    /\ UNCHANGED parseVars
    /\ UNCHANGED preprocessVars

\* lines 375-380: the fallback command is taken from the creator
NewFallbackCommand ==
    /\ pc = "cmd2"
    /\ cmds' = Append(cmds, NewCommand(FallbackArgs(parsed_args)))
    /\ pc' = "await"
    /\ UNCHANGED <<parsed_args, children, fs, cacheable, write, tempdir, runs,
                   ret, fs_at_call>>
    /\ UNCHANGED parseVars
    /\ UNCHANGED preprocessVars

\* line 361: the write failed, and its error is the value of the chain
WriteFailed ==
    /\ pc = "await"
    /\ write = "err"
    /\ ret' = Err("write_temp_file")
    /\ pc' = "done"
    /\ UNCHANGED <<parsed_args, children, fs, cacheable, write, tempdir, cmds,
                   runs, fs_at_call>>
    /\ UNCHANGED parseVars
    /\ UNCHANGED preprocessVars

\* lines 361-364: the temporary file becomes the input of the primary command,
\* which is run
StartPrimary ==
    /\ pc = "await"
    /\ write = "ok"
    /\ LET input == Join(TempDir, Unwrap(FileName(parsed_args.input)))
       IN  runs' = Append(runs, [cmd |-> 1,
                                 args |-> Append(cmds[1].args, input),
                                 outcome |-> "running"])
    /\ pc' = "primary"
    /\ UNCHANGED <<parsed_args, children, fs, cacheable, write, tempdir, cmds,
                   ret, fs_at_call>>
    /\ UNCHANGED parseVars
    /\ UNCHANGED preprocessVars

\* the temporary directory is dropped only when the run gave an output
Dropped_OnOutputOnly(outcome) ==
    IF outcome = "error" THEN tempdir ELSE "removed"

\* lines 364-367: the closure given to map holds tempdir; it is consumed when
\* the run resolves, with an output or with an error
Dropped(outcome) == "removed"

\* lines 364-367: the primary run resolves and the temporary directory is
\* dropped, with the closure that holds it
PrimaryExits ==
    /\ pc = "primary"
    /\ runs' = [runs EXCEPT ![1].outcome = OutcomeOf(cmds[1])]
    /\ tempdir' = Dropped(OutcomeOf(cmds[1]))
    /\ pc' = "decide"
    /\ UNCHANGED <<parsed_args, children, fs, cacheable, write, cmds, ret,
                   fs_at_call>>
    /\ UNCHANGED parseVars
    /\ UNCHANGED preprocessVars

\* the closure is run on an error of the run as well
AndThen_OnError(outcome) == TRUE

\* line 381: and_then runs its closure on the output of the run, not on an
\* error of running it
AndThen(outcome) == outcome # "error"

\* line 381: an error of the primary run is the value of the chain
PrimaryError ==
    /\ pc = "decide"
    /\ runs[1].outcome = "error"
    /\ ret' = Err("run_input_output")
    /\ pc' = "done"
    /\ UNCHANGED <<parsed_args, children, fs, cacheable, write, tempdir, cmds,
                   runs, fs_at_call>>
    /\ UNCHANGED parseVars
    /\ UNCHANGED preprocessVars

\* lines 382-383: the primary output is returned when its status is success
ReturnPrimary ==
    /\ pc = "decide"
    /\ AndThen(runs[1].outcome)
    /\ Success(Output(cmds[1].child, runs[1].outcome))
    /\ ret' = OkCompile(ReturnedTag, Output(cmds[1].child, runs[1].outcome))
    /\ pc' = "done"
    /\ UNCHANGED <<parsed_args, children, fs, cacheable, write, tempdir, cmds,
                   runs, fs_at_call>>
    /\ UNCHANGED parseVars
    /\ UNCHANGED preprocessVars

\* lines 384-386: otherwise the fallback command is run
StartFallback ==
    /\ pc = "decide"
    /\ AndThen(runs[1].outcome)
    /\ ~Success(Output(cmds[1].child, runs[1].outcome))
    /\ runs' = Append(runs, [cmd |-> 2, args |-> cmds[2].args,
                             outcome |-> "running"])
    /\ pc' = "fallback"
    /\ UNCHANGED <<parsed_args, children, fs, cacheable, write, tempdir, cmds,
                   ret, fs_at_call>>
    /\ UNCHANGED parseVars
    /\ UNCHANGED preprocessVars

\* lines 386-388: the fallback run resolves: its output with the tag, or its
\* error
FallbackExits ==
    /\ pc = "fallback"
    /\ LET outcome == OutcomeOf(cmds[2])
       IN  /\ runs' = [runs EXCEPT ![2].outcome = outcome]
           /\ ret' = IF outcome = "error" THEN Err("run_input_output")
                     ELSE OkCompile(ReturnedTag, Output(cmds[2].child, outcome))
    /\ pc' = "done"
    /\ UNCHANGED <<parsed_args, children, fs, cacheable, write, tempdir, cmds,
                   fs_at_call>>
    /\ UNCHANGED parseVars
    /\ UNCHANGED preprocessVars

\* the environment: a file is created or deleted while the call is under way
FsChange ==
    /\ pc \notin {"idle", "call", "done"}
    /\ \E p \in FsPaths :
         fs' = IF p \in fs THEN fs \ {p} ELSE fs \cup {p}
    /\ UNCHANGED <<parsed_args, children, pc, cacheable, write, tempdir, cmds,
                   runs, ret, fs_at_call>>
    /\ UNCHANGED parseVars
    /\ UNCHANGED preprocessVars

InitCompile ==
    /\ arguments = <<>>
    /\ result = <<>>
    /\ parsed_args \in CompileInputs
    /\ children \in [1..2 -> ChildOutcomes]
    /\ fs \in SUBSET FsPaths
    /\ pc = "call"
    /\ cacheable = "unset"
    /\ write = "none"
    /\ tempdir = "none"
    /\ cmds = <<>>
    /\ runs = <<>>
    /\ ret = <<>>
    /\ fs_at_call = {}
    /\ PreprocessIdle

NextCompile ==
    \/ CompileCall
    \/ SpawnWrite
    \/ WriteTempFile
    \/ NewPrimaryCommand
    \/ NewFallbackCommand
    \/ WriteFailed
    \/ StartPrimary
    \/ PrimaryExits
    \/ PrimaryError
    \/ ReturnPrimary
    \/ StartFallback
    \/ FallbackExits
    \/ FsChange

SpecCompile == InitCompile /\ [][NextCompile]_vars

(***************************************************************************)
(* Properties of compile, checked under SpecCompile.                       *)
(***************************************************************************)
Returned == pc = "done"
ReturnedOk == Returned /\ ret[1] = "Ok"

\* the primary attempt completed with an unsuccessful exit status
PrimaryFailed == Len(runs) >= 1 /\ runs[1].outcome = "exit1"

\* the temporary file the preprocessed source is written to
TempInput == (TempDir \o "/") \o Unwrap(FileName(parsed_args.input))

\* the value of compile when child k resolved the last attempt: its output,
\* whatever its status, or the error of running it
ResultOfChild(k) ==
    IF children[k] = "error" THEN ret[1] = "Err"
    ELSE /\ ret[1] = "Ok"
         /\ ret[3].stdout = <<"child", k>>
         /\ ret[3].status = (IF children[k] = "exit0" THEN 0 ELSE 1)

\* C8: when the primary attempt completes with an unsuccessful status, one
\* more command is run, on the original source and not on the temporary
\* file, and what it yields is the value of compile, whether it succeeded or
\* failed.
C8_FallbackRunsOnceOnSource ==
    /\ Len(runs) <= 2
    /\ (Returned /\ PrimaryFailed) =>
         /\ Len(runs) = 2
         /\ runs[2].cmd = 2
         /\ \E k \in DOMAIN runs[2].args : runs[2].args[k] = parsed_args.input
         /\ \A k \in DOMAIN runs[2].args : runs[2].args[k] # TempInput
         /\ \E k \in DOMAIN runs[1].args : runs[1].args[k] = TempInput
         /\ ResultOfChild(2)

\* the fallback failed as well, and its output is returned
C8_Witness ==
    /\ Returned
    /\ PrimaryFailed
    /\ Len(runs) = 2
    /\ runs[2].outcome = "exit1"
    /\ ret[1] = "Ok"
    /\ ret[3].status = 1

\* the path of the "pdb" output, resolved against the working directory
PdbPath ==
    IF StartsWith(parsed_args.outputs["pdb"], "/")
    THEN parsed_args.outputs["pdb"]
    ELSE (Cwd \o "/") \o parsed_args.outputs["pdb"]

\* the "pdb" output is present and its file is among files
PdbIn(files) == "pdb" \in DOMAIN parsed_args.outputs /\ PdbPath \in files

\* C9: the tag compile returns is No exactly when there is a "pdb" output
\* whose file existed, in the working directory, when compile was called;
\* it is Yes otherwise.
C9_TagIsNoIffPdbExistedAtCall ==
    ReturnedOk =>
      /\ ret[2] \in {"Yes", "No"}
      /\ ret[2] = "No" <=> PdbIn(fs_at_call)

\* a PDB given by a relative path existed in the working directory
C9_Witness ==
    /\ ReturnedOk
    /\ "pdb" \in DOMAIN parsed_args.outputs
    /\ ~StartsWith(parsed_args.outputs["pdb"], "/")
    /\ PdbIn(fs_at_call)
    /\ ret[2] = "No"

\* C10: the tag is set once, before the temporary file is written and before
\* any command runs; it is never set again; and it is the tag compile
\* returns, from the primary or from the fallback attempt, whatever happened
\* to the PDB file in between.
C10_TagIsFixedAtTheStart ==
    [][/\ (cacheable = "unset" /\ cacheable' # "unset")
            => (write = "none" /\ tempdir = "none" /\ runs = <<>>)
       /\ cacheable # "unset" => cacheable' = cacheable
       /\ (ret = <<>> /\ ret' # <<>> /\ ret'[1] = "Ok")
            => (cacheable # "unset" /\ ret'[2] = cacheable)]_vars

\* the fallback's output is returned after the PDB file appeared or went away
C10_Witness ==
    /\ ReturnedOk
    /\ Len(runs) = 2
    /\ "pdb" \in DOMAIN parsed_args.outputs
    /\ PdbIn(fs) # PdbIn(fs_at_call)

\* the call passed its checks: the write was handed to the pool
PassedChecks == write # "none"

\* C16: a call that passes its checks takes two commands from the creator,
\* the primary (without the source) first and the fallback (with the
\* source) second, both before a process runs; the primary command is run
\* first and the fallback command second; after a successful exit of the
\* primary attempt no other command is run and its output is returned; no
\* more than two processes are run.
C16_TwoCommandsAtMostTwoRuns ==
    /\ Len(cmds) <= 2 /\ Len(runs) <= 2
    /\ (runs # <<>> \/ (Returned /\ PassedChecks)) => Len(cmds) = 2
    /\ Len(cmds) = 2 =>
         /\ cmds[1].child = 1 /\ cmds[2].child = 2
         /\ \A k \in DOMAIN cmds[1].args : cmds[1].args[k] # parsed_args.input
         /\ \E k \in DOMAIN cmds[2].args : cmds[2].args[k] = parsed_args.input
    /\ \A k \in DOMAIN runs : runs[k].cmd = k
    /\ (runs # <<>> /\ runs[1].outcome = "exit0") =>
         /\ Len(runs) = 1
         /\ Returned =>
              /\ ret[1] = "Ok"
              /\ ret[3].stdout = <<"child", 1>>
              /\ ret[3].status = 0

\* the primary attempt succeeded: two commands were taken and one was run
C16_Witness ==
    /\ Returned
    /\ Len(cmds) = 2
    /\ Len(runs) = 1
    /\ runs[1].outcome = "exit0"
    /\ children[2] = "exit1"

\* a fallback attempt is running or is going to be run
FallbackAhead ==
    \/ pc = "fallback"
    \/ pc = "decide" /\ runs[1].outcome = "exit1"

\* C14 as stated: the temporary directory exists while an attempt of the
\* call, primary or fallback, is running; it is released only when no
\* attempt is left to resolve; and it does not exist when compile returns.
C14_TempdirOutlivesBothAttempts ==
    /\ pc \in {"primary", "fallback"} => tempdir = "exists"
    /\ tempdir = "removed" => ~FallbackAhead
    /\ Returned => tempdir # "exists"

\* C14 amended: the temporary directory exists while the primary attempt is
\* running; it is released when the primary attempt resolves, with an output
\* or an error, and so before the fallback attempt is started; and it does
\* not exist when compile returns, on any path.
C14_TempdirOutlivesPrimaryAttempt ==
    /\ pc = "primary" => tempdir = "exists"
    /\ tempdir = "removed" => (Len(runs) >= 1 /\ runs[1].outcome # "running")
    /\ pc \in {"decide", "fallback"} => tempdir = "removed"
    /\ Returned => tempdir # "exists"

\* the fallback attempt runs after the temporary directory is gone
C14_Witness ==
    /\ pc = "fallback"
    /\ runs[2].outcome = "running"
    /\ tempdir = "removed"

\* a step ahead of the commands failed: no "obj" output, an input without
\* file name, or the write of the temporary file
EarlyFailure ==
    \/ "obj" \notin DOMAIN parsed_args.outputs
    \/ ~IsSome(FileName(parsed_args.input))
    \/ write = "err"

\* C23: a failure of an earlier step runs no later step: when the "obj"
\* output is missing, the input has no file name, or the write of the
\* temporary file fails, no compiler process is run and compile returns an
\* error; the fallback attempt is run only after the primary attempt
\* completed with an unsuccessful exit status, and never after an error of
\* running the primary process, which is the error compile returns.
C23_FailureRunsNoLaterStep ==
    /\ EarlyFailure =>
         /\ runs = <<>>
         /\ Returned => ret[1] = "Err"
    /\ Len(runs) >= 2 => runs[1].outcome = "exit1"
    /\ (runs # <<>> /\ runs[1].outcome = "error") =>
         /\ Len(runs) = 1
         /\ Returned => ret[1] = "Err"

\* running the primary process failed, the fallback would have succeeded,
\* and compile returned the error without running it
C23_Witness ==
    /\ Returned
    /\ Len(runs) = 1
    /\ runs[1].outcome = "error"
    /\ children[2] = "exit0"
    /\ Len(cmds) = 2
    /\ ret[1] = "Err"

(***************************************************************************)
(* Text: the helpers of preprocess and detect_showincludes_prefix.         *)
(***************************************************************************)
\* str::ends_with
EndsWith(v, s) == Len(v) >= Len(s) /\ SubSeq(v, Len(v) - Len(s) + 1, Len(v)) = s

\* str::contains for a character
Contains(v, c) == IndexOf(v, c, 1) # 0

\* str::replace for a character
RECURSIVE Replace(_, _, _)
Replace(v, from, to) ==
    IF v = "" THEN ""
    ELSE (IF SubSeq(v, 1, 1) = from THEN to ELSE SubSeq(v, 1, 1))
         \o Replace(SliceFrom(v, 1), from, to)

\* char::is_whitespace, on the characters of the model
WhiteSpace == {" ", "\t", "\r", "\n"}

RECURSIVE TrimLeft(_)
TrimLeft(v) ==
    IF v # "" /\ SubSeq(v, 1, 1) \in WhiteSpace THEN TrimLeft(SliceFrom(v, 1))
    ELSE v

RECURSIVE TrimRight(_)
TrimRight(v) ==
    IF v # "" /\ SubSeq(v, Len(v), Len(v)) \in WhiteSpace
    THEN TrimRight(SubSeq(v, 1, Len(v) - 1))
    ELSE v

\* str::trim
Trim(v) == TrimRight(TrimLeft(v))

\* str::lines: the pieces between the line feeds, without the empty piece
\* after a final line feed, each without its final carriage return
Lines(v) ==
    LET pieces == Split(v, "\n")
        kept == IF pieces[Len(pieces)] = ""
                THEN SubSeq(pieces, 1, Len(pieces) - 1) ELSE pieces
    IN  [i \in 1..Len(kept) |->
            IF EndsWith(kept[i], "\r")
            THEN SubSeq(kept[i], 1, Len(kept[i]) - 1) ELSE kept[i]]

\* a byte that is no character of the code page
BadByte == "~"

\* from_local_codepage: the text of the bytes, or an error
from_local_codepage(bytes) ==
    IF Contains(bytes, BadByte) THEN <<"Err", "decode">> ELSE <<"Ok", bytes>>

\* the characters of the model in the order of their bytes
ByteOrder == "\t\n\r #-./:ANPW\\abcdehilnoprstwx~"

\* a < b in the order of String: byte by byte, a prefix first
RECURSIVE StrLess(_, _)
StrLess(a, b) ==
    IF b = "" THEN FALSE
    ELSE IF a = "" THEN TRUE
    ELSE LET x == IndexOf(ByteOrder, SubSeq(a, 1, 1), 1)
             y == IndexOf(ByteOrder, SubSeq(b, 1, 1), 1)
         IN  IF x # y THEN x < y
             ELSE StrLess(SliceFrom(a, 1), SliceFrom(b, 1))

(***************************************************************************)
(* preprocess                                                              *)
(***************************************************************************)
\* the prefix preprocess is called with
includes_prefix == "N: "

\* the files of the model's file system that a header path can name
HeaderPaths == {"/a.h"}

\* the name a file has on disk, on a file system that ignores case and
\* separators: the path GetFinalPathNameByHandleW reports, after "\\?\"
FinalPathName(path) ==
    "\\\\?\\" \o Replace(Replace(path, "/", "\\"), "A", "a")

\* File::open(path), cfg(windows)
CanOpen(path) == Replace(SliceFrom(FinalPathName(path), 4), "\\", "/") \in fs

\* normpath: cfg(windows), the final path name of the file without its first
\* four characters when the file opens, the path otherwise, with '/' for
\* '\\'; cfg(not(windows)), the path
normpath(path) ==
    IF cfg_windows
    THEN IF CanOpen(path)
         THEN Replace(SliceFrom(FinalPathName(path), 4), "\\", "/")
         ELSE Replace(path, "\\", "/")
    ELSE path

\* -showIncludes is passed whether or not a dependency file is wanted
PreprocessArgs_AlwaysShowIncludes(pa) ==
    (<<"-E", pa.input, "-nologo">> \o pa.common_args) \o <<"-showIncludes">>

\* lines 261-268: the arguments of the preprocessor command
PreprocessArgs(pa) ==
    (<<"-E", pa.input, "-nologo">> \o pa.common_args)
    \o (IF IsSome(pa.depfile) THEN <<"-showIncludes">> ELSE <<>>)

\* the process::Output of the preprocessor that exited with the outcome
ProcessOutput(outcome) ==
    [status |-> IF outcome = "exit0" THEN 0 ELSE 1,
     stdout |-> stdout_bytes, stderr |-> stderr_bytes]

\* line 280: an "obj" output and a dependency file are both there
WantsDepfile(pa) == "obj" \in DOMAIN pa.outputs /\ IsSome(pa.depfile)

\* line 282: the head of the object rule
RuleHead(pa) == ((pa.outputs["obj"] \o ": ") \o pa.input) \o " "

\* a path is put on the object rule each time it is met
WritesDep_EachTime(dep, deps) == ~Contains(dep, " ")

\* line 291: the path is put on the object rule
WritesDep(dep, deps) == dep \notin deps /\ ~Contains(dep, " ")

\* the line feed is not put back
RetainedBytes_NoLineFeed(line) == line

\* lines 295-296: what a line that is no include adds to the returned stderr
RetainedBytes(line) == line \o "\n"

\* lines 287-298: the loop over the lines of stderr, from line i, with the
\* locals st: the set deps, the text written to f, and the new stderr_bytes
RECURSIVE ReadLines(_, _, _)
ReadLines(lines, i, st) ==
    IF i > Len(lines) THEN st
    ELSE LET line == lines[i] IN
      IF StartsWith(line, includes_prefix)
      THEN LET dep == normpath(Trim(SliceFrom(line, Len(includes_prefix))))
           IN  ReadLines(lines, i + 1,
                   [st EXCEPT !.deps = @ \cup {dep},
                              !.text = IF WritesDep(dep, st.deps)
                                       THEN (@ \o dep) \o " " ELSE @])
      ELSE ReadLines(lines, i + 1,
               [st EXCEPT !.stderr_bytes = @ \o RetainedBytes(line)])

\* the paths of deps in descending order
RECURSIVE sorted_Descending(_)
sorted_Descending(deps) ==
    IF deps = {} THEN <<>>
    ELSE LET most == CHOOSE d \in deps : \A e \in deps \ {d} : StrLess(e, d)
         IN  <<most>> \o sorted_Descending(deps \ {most})

\* lines 303-304: the paths of deps in ascending order
RECURSIVE sorted(_)
sorted(deps) ==
    IF deps = {} THEN <<>>
    ELSE LET least == CHOOSE d \in deps : \A e \in deps \ {d} : StrLess(d, e)
         IN  <<least>> \o sorted(deps \ {least})

\* lines 305-309: the empty rules of the paths without a space
RECURSIVE EmptyRules(_)
EmptyRules(paths) ==
    IF paths = <<>> THEN ""
    ELSE (IF ~Contains(Head(paths), " ") THEN Head(paths) \o ":\n" ELSE "")
         \o EmptyRules(Tail(paths))

\* lines 285-309: the text of f and the new stderr_bytes, from the decoded
\* stderr
Synthesize(pa, stderr) ==
    LET st == ReadLines(Lines(stderr), 1,
                        [deps |-> {}, text |-> RuleHead(pa),
                         stderr_bytes |-> ""])
    IN  [text |-> (((st.text \o "\n") \o pa.input) \o ":\n")
                  \o EmptyRules(sorted(st.deps)),
         stderr_bytes |-> st.stderr_bytes]

(***************************************************************************)
(* The inputs of preprocess and the specification of a call.               *)
(***************************************************************************)
MaxLines == 3

\* the lines the preprocessor writes to stderr: includes (a path, the same
\* path in another spelling and letter case between spaces, a path with a
\* space, no path), a diagnostic, and a line with a byte that does not decode
StderrLines == {"N: /a.h", "N:  \\A.h ", "N: /c d.h", "N: ", "warn", "w~"}

\* the ways the lines are ended: the line end, and whether the last line
\* has one
LineEnds == {<<"\r\n", TRUE>>, <<"\n", FALSE>>}

\* the bytes of the lines ls, each ended by eol, the last one if final
RECURSIVE Unlines(_, _, _)
Unlines(ls, eol, final) ==
    IF ls = <<>> THEN ""
    ELSE IF Len(ls) = 1 THEN ls[1] \o (IF final THEN eol ELSE "")
    ELSE (ls[1] \o eol) \o Unlines(Tail(ls), eol, final)

\* command lines whose ParsedArguments preprocess is called with
PreprocessLines ==
    {<<"-c", "foo.c", "-Fofoo.obj">>,
     <<"-c", "foo.c", "-W", "-Fofoo.obj", "-depsfoo.d">>,
     <<"-c", "-FI", "-showIncludes", "foo.c", "-Fofoo.obj">>}

\* ParsedArguments that parse_arguments does not produce: a dependency file
\* and no "obj" output
NoObject ==
    [input |-> "foo.c", extension |-> "c", depfile |-> Some("foo.d"),
     outputs |-> <<>>, preprocessor_args |-> <<>>, common_args |-> <<>>]

PreprocessInputs ==
    {parse_arguments(a)[2] : a \in PreprocessLines} \cup {NoObject}

InitPreprocess ==
    /\ arguments = <<>>
    /\ result = <<>>
    /\ parsed_args \in PreprocessInputs
    /\ children \in [1..1 -> ChildOutcomes]
    /\ fs \in SUBSET HeaderPaths
    /\ pc = "preprocess"
    /\ cacheable = "unset"
    /\ write = "none"
    /\ tempdir = "none"
    /\ cmds = <<>>
    /\ runs = <<>>
    /\ ret = <<>>
    /\ fs_at_call = {}
    /\ cfg_windows \in BOOLEAN
    /\ stdout_bytes = "pp"
    /\ \E n \in 0..MaxLines :
         \E ls \in [1..n -> StderrLines] :
           \E e \in LineEnds : stderr_bytes = Unlines(ls, e[1], e[2])
    /\ dep_file = <<>>
    /\ io_fail \in {"none", "create", "write"}

\* lines 260-278: the command is built and handed to run_input_output
PreprocessCall ==
    /\ pc = "preprocess"
    /\ cmds' = <<NewCommand(PreprocessArgs(parsed_args))>>
    /\ runs' = <<[cmd |-> 1, args |-> PreprocessArgs(parsed_args),
                  outcome |-> "running"]>>
    /\ pc' = "preprocessing"
    /\ UNCHANGED <<parsed_args, children, fs, cacheable, write, tempdir, ret,
                   fs_at_call>>
    /\ UNCHANGED parseVars
    /\ UNCHANGED preprocessVars

\* line 278: an error of the run is the value of the chain
PreprocessRunError ==
    /\ pc = "preprocessing"
    /\ OutcomeOf(cmds[1]) = "error"
    /\ runs' = [runs EXCEPT ![1].outcome = "error"]
    /\ ret' = Err("run_input_output")
    /\ pc' = "done"
    /\ UNCHANGED <<parsed_args, children, fs, cacheable, write, tempdir, cmds,
                   fs_at_call>>
    /\ UNCHANGED parseVars
    /\ UNCHANGED preprocessVars

\* lines 280, 311-313: no dependency file: the output is returned
PreprocessPassThrough ==
    /\ pc = "preprocessing"
    /\ OutcomeOf(cmds[1]) # "error"
    /\ ~WantsDepfile(parsed_args)
    /\ runs' = [runs EXCEPT ![1].outcome = OutcomeOf(cmds[1])]
    /\ ret' = <<"Ok", ProcessOutput(OutcomeOf(cmds[1]))>>
    /\ pc' = "done"
    /\ UNCHANGED <<parsed_args, children, fs, cacheable, write, tempdir, cmds,
                   fs_at_call>>
    /\ UNCHANGED parseVars
    /\ UNCHANGED preprocessVars

\* line 281: File::create fails
PreprocessCreateFails ==
    /\ pc = "preprocessing"
    /\ OutcomeOf(cmds[1]) # "error"
    /\ WantsDepfile(parsed_args)
    /\ io_fail = "create"
    /\ runs' = [runs EXCEPT ![1].outcome = OutcomeOf(cmds[1])]
    /\ ret' = Err("File::create")
    /\ pc' = "done"
    /\ UNCHANGED <<parsed_args, children, fs, cacheable, write, tempdir, cmds,
                   fs_at_call>>
    /\ UNCHANGED parseVars
    /\ UNCHANGED preprocessVars

\* lines 281-282: the file is created and the first write to it fails
PreprocessWriteFails ==
    /\ pc = "preprocessing"
    /\ OutcomeOf(cmds[1]) # "error"
    /\ WantsDepfile(parsed_args)
    /\ io_fail = "write"
    /\ runs' = [runs EXCEPT ![1].outcome = OutcomeOf(cmds[1])]
    /\ dep_file' = [path |-> Join(Cwd, Unwrap(parsed_args.depfile)),
                    text |-> ""]
    /\ ret' = Err("write")
    /\ pc' = "done"
    /\ UNCHANGED <<parsed_args, children, fs, cacheable, write, tempdir, cmds,
                   fs_at_call>>
    /\ UNCHANGED parseVars
    /\ UNCHANGED <<cfg_windows, stdout_bytes, stderr_bytes, io_fail>>

\* lines 281-284: the head of the rule is written and stderr does not decode
PreprocessDecodeFails ==
    /\ pc = "preprocessing"
    /\ OutcomeOf(cmds[1]) # "error"
    /\ WantsDepfile(parsed_args)
    /\ io_fail = "none"
    /\ from_local_codepage(stderr_bytes)[1] = "Err"
    /\ runs' = [runs EXCEPT ![1].outcome = OutcomeOf(cmds[1])]
    /\ dep_file' = [path |-> Join(Cwd, Unwrap(parsed_args.depfile)),
                    text |-> RuleHead(parsed_args)]
    /\ ret' = Err("from_local_codepage")
    /\ pc' = "done"
    /\ UNCHANGED <<parsed_args, children, fs, cacheable, write, tempdir, cmds,
                   fs_at_call>>
    /\ UNCHANGED parseVars
    /\ UNCHANGED <<cfg_windows, stdout_bytes, stderr_bytes, io_fail>>

\* lines 281-310: the dependency file is written; the output is returned
\* with the new stderr
PreprocessWriteDepfile ==
    /\ pc = "preprocessing"
    /\ OutcomeOf(cmds[1]) # "error"
    /\ WantsDepfile(parsed_args)
    /\ io_fail = "none"
    /\ from_local_codepage(stderr_bytes)[1] = "Ok"
    /\ runs' = [runs EXCEPT ![1].outcome = OutcomeOf(cmds[1])]
    /\ LET output == ProcessOutput(OutcomeOf(cmds[1]))
           syn == Synthesize(parsed_args, from_local_codepage(stderr_bytes)[2])
       IN  /\ dep_file' = [path |-> Join(Cwd, Unwrap(parsed_args.depfile)),
                           text |-> syn.text]
           /\ ret' = <<"Ok", [status |-> output.status,
                              stdout |-> output.stdout,
                              stderr |-> syn.stderr_bytes]>>
    /\ pc' = "done"
    /\ UNCHANGED <<parsed_args, children, fs, cacheable, write, tempdir, cmds,
                   fs_at_call>>
    /\ UNCHANGED parseVars
    /\ UNCHANGED <<cfg_windows, stdout_bytes, stderr_bytes, io_fail>>

NextPreprocess ==
    \/ PreprocessCall
    \/ PreprocessRunError
    \/ PreprocessPassThrough
    \/ PreprocessCreateFails
    \/ PreprocessWriteFails
    \/ PreprocessDecodeFails
    \/ PreprocessWriteDepfile

SpecPreprocess == InitPreprocess /\ [][NextPreprocess]_vars

(***************************************************************************)
(* Properties of preprocess, checked under SpecPreprocess.                 *)
(***************************************************************************)
PreprocessOk == pc = "done" /\ ret[1] = "Ok"

\* preprocess returned after it wrote the whole dependency file
Synthesized == PreprocessOk /\ WantsDepfile(parsed_args)

\* the lines of the stderr of the process
Decoded == Lines(stderr_bytes)

\* the path an include line names
DepOf(line) == normpath(Trim(Rest(line, Len(includes_prefix))))

\* the positions of the include lines among the lines d
IncludesOf(d) == {i \in DOMAIN d : StartsWith(d[i], includes_prefix)}

\* the positions, among inc, of the lines whose path no earlier line has;
\* dep[i] is the path of line i
FirstSeenOf(inc, dep) ==
    {i \in inc : \A j \in inc : j < i => dep[j] # dep[i]}

\* the positions, among first, of the paths without a space
ListedOf(first, dep) ==
    {i \in first : \A k \in 1..Len(dep[i]) : SubSeq(dep[i], k, k) # " "}

\* the paths at the positions P from i to n, each followed by a space
RECURSIVE ListedFrom(_, _, _, _)
ListedFrom(P, dep, n, i) ==
    IF i > n THEN ""
    ELSE (IF i \in P THEN dep[i] \o " " ELSE "")
         \o ListedFrom(P, dep, n, i + 1)

\* the analysis of the stderr of the process: its lines, the positions of
\* the include lines, their paths, the first occurrences and those listed
Analysis ==
    LET d == Lines(stderr_bytes)
        inc == IncludesOf(d)
        dep == [i \in inc |-> DepOf(d[i])]
        first == FirstSeenOf(inc, dep)
    IN  [lines |-> d, includes |-> inc, dep |-> dep, first |-> first,
         listed |-> ListedOf(first, dep)]

\* the lines of the dependency file, as the text between its line feeds
FileLines == Split(dep_file.text, "\n")

\* C11: when preprocess has written a dependency file, its object rule line
\* is "<obj>: <input> " followed by the dependency paths, each followed by a
\* space, in the order of their first occurrence in stderr: a path is there
\* once, for its first occurrence, when it holds no space, and not at all
\* when it holds one.
C11_ObjectRuleListsFirstOccurrences ==
    Synthesized =>
      LET a == Analysis IN
      /\ dep_file # <<>>
      /\ FileLines[1] =
           (((parsed_args.outputs["obj"] \o ": ") \o parsed_args.input) \o " ")
           \o ListedFrom(a.listed, a.dep, Len(a.lines), 1)

\* two paths, one of them met again, and a path with a space
C11_Witness ==
    /\ Synthesized
    /\ Cardinality(Analysis.listed) >= 1
    /\ Analysis.includes # Analysis.first
    /\ Analysis.first # Analysis.listed

\* the path of an empty rule: the line without its last character
RulePath(line) == SubSeq(line, 1, Len(line) - 1)

\* the words of the object rule line after "<obj>:" and "<input>", without
\* the empty text after the last space
RuleWords(line) ==
    LET words == Split(line, " ")
    IN  {words[k] : k \in 3..(Len(words) - 1)}

\* C17: after the object rule line the dependency file holds the empty rule
\* "<input>:", then one empty rule "<dep>:" for each distinct dependency
\* path without a space, in ascending order, and nothing else; the paths
\* with an empty rule are the paths on the object rule line.
C17_EmptyRulesSortedAndDistinct ==
    Synthesized =>
      LET a == Analysis
          file == FileLines
          rules == SubSeq(file, 3, Len(file) - 1)
          spacefree == {a.dep[i] : i \in a.listed}
      IN  /\ Len(file) >= 3
          /\ file[2] = parsed_args.input \o ":"
          /\ file[Len(file)] = ""
          /\ \A k \in DOMAIN rules :
               /\ rules[k] # ""
               /\ SubSeq(rules[k], Len(rules[k]), Len(rules[k])) = ":"
          /\ \A k \in 1..(Len(rules) - 1) :
               StrLess(RulePath(rules[k]), RulePath(rules[k + 1]))
          /\ {RulePath(rules[k]) : k \in DOMAIN rules} = spacefree
          /\ RuleWords(file[1]) = spacefree

\* two paths met in descending order, and a path with a space
C17_Witness ==
    /\ Synthesized
    /\ Analysis.first # Analysis.listed
    /\ \E i, j \in Analysis.listed :
         i < j /\ StrLess(Analysis.dep[j], Analysis.dep[i])

\* the lines d from i on that are not at the positions inc, each with a line
\* feed
RECURSIVE KeptFrom(_, _, _)
KeptFrom(d, inc, i) ==
    IF i > Len(d) THEN ""
    ELSE (IF i \in inc THEN "" ELSE d[i] \o "\n") \o KeptFrom(d, inc, i + 1)

\* C18: when preprocess has written a dependency file, the stderr it returns
\* is made of the decoded stderr lines that do not start with the prefix, in
\* their order, each followed by a line feed; no line of it starts with the
\* prefix; stdout and the exit status are those of the process.
C18_ReturnedStderrIsTheOtherLines ==
    Synthesized =>
      LET d == Lines(stderr_bytes)
          inc == IncludesOf(d)
          back == Lines(ret[2].stderr)
      IN  /\ ret[2].stderr = KeptFrom(d, inc, 1)
          /\ \A k \in DOMAIN back : ~StartsWith(back[k], includes_prefix)
          /\ ret[2].stdout = stdout_bytes
          /\ ret[2].status = (IF children[1] = "exit0" THEN 0 ELSE 1)

\* include lines among other lines, ended by carriage return and line feed
C18_Witness ==
    /\ Synthesized
    /\ Analysis.includes # {}
    /\ Analysis.includes # DOMAIN Decoded
    /\ \E k \in 1..Len(stderr_bytes) : SubSeq(stderr_bytes, k, k) = "\r"
    /\ ret[2].stderr # ""

\* the number of tokens "-showIncludes" in args
RECURSIVE CountShowIncludes(_)
CountShowIncludes(args) ==
    IF args = <<>> THEN 0
    ELSE (IF Head(args) = "-showIncludes" THEN 1 ELSE 0)
         + CountShowIncludes(Tail(args))

\* the dependency file is requested
Requested == parsed_args.depfile # <<>>

\* preprocess returns the output of the process as it is, and no file
Unchanged ==
    /\ dep_file = <<>>
    /\ PreprocessOk =>
         /\ ret[2].stdout = stdout_bytes
         /\ ret[2].stderr = stderr_bytes
         /\ ret[2].status = (IF children[1] = "exit0" THEN 0 ELSE 1)

\* C19 as stated: the preprocessor command holds "-showIncludes" exactly when
\* the dependency file is requested; the primary and the fallback command of
\* compile do not hold it, for ParsedArguments that parse_arguments gives;
\* without a dependency file preprocess returns the output unchanged and
\* creates no file.
C19_ShowIncludesOnlyForDepfile ==
    /\ runs # <<>> =>
         (CountShowIncludes(runs[1].args) > 0 <=> Requested)
    /\ parsed_args # NoObject =>
         /\ CountShowIncludes(PrimaryArgs(parsed_args)) = 0
         /\ CountShowIncludes(FallbackArgs(parsed_args)) = 0
    /\ (pc = "done" /\ ~Requested) => Unchanged

\* C19 amended: the preprocessor command holds one "-showIncludes" more than
\* common_args when the dependency file is requested and as many otherwise;
\* the primary and the fallback command of compile hold as many as
\* common_args, where each is the value of a -FI; without a dependency file
\* preprocess returns the output unchanged and creates no file.
C19_ShowIncludesAddedOnlyForDepfile ==
    /\ runs # <<>> =>
         CountShowIncludes(runs[1].args) =
           CountShowIncludes(parsed_args.common_args)
           + (IF Requested THEN 1 ELSE 0)
    /\ parsed_args # NoObject =>
         /\ CountShowIncludes(PrimaryArgs(parsed_args)) =
              CountShowIncludes(parsed_args.common_args)
         /\ CountShowIncludes(FallbackArgs(parsed_args)) =
              CountShowIncludes(parsed_args.common_args)
         /\ \A k \in DOMAIN parsed_args.common_args :
              parsed_args.common_args[k] = "-showIncludes"
                => (k > 1 /\ parsed_args.common_args[k - 1] = "-FI")
    /\ (pc = "done" /\ ~Requested) => Unchanged

\* preprocess returned the output of a command without "-showIncludes"
C19_Witness ==
    /\ PreprocessOk
    /\ ~Requested
    /\ CountShowIncludes(runs[1].args) = 0
    /\ stderr_bytes # ""

\* C12: when a dependency file is requested, for a command with an object
\* output, and the preprocessor exits unsuccessfully, preprocess returns an
\* error, and the dependency file has not been created.
C12_FailedExitIsAnError ==
    (/\ pc = "done"
     /\ WantsDepfile(parsed_args)
     /\ children[1] = "exit1")
        => (ret[1] = "Err" /\ dep_file = <<>>)

(***************************************************************************)
(* detect_showincludes_prefix                                              *)
(***************************************************************************)
\* the files the model's file system may hold when the prefix is detected
DetectPaths == {"/t/stdio.h", "/x y/stdio.h", "y/stdio.h"}

\* the lines the compiler writes to stdout: the header after a prefix, at a
\* path without and with a space, the header alone, another line, and a
\* line with a byte that does not decode
StdoutLines ==
    {"blah: /t/stdio.h", "blah: /x y/stdio.h", "/t/stdio.h", "other", "b~"}

\* line 60: the arguments of the command, before the temporary input
DetectArgs == <<"-nologo", "-showIncludes", "-c", "-Fonul">>

\* every path is taken to exist
Exists_Always(path) == TRUE

\* line 89: Path::exists
Exists(path) == path \in fs

\* the space nearest the start of the line whose remainder is a path that
\* exists, 0 when there is none
Boundary_Leftmost(line) ==
    IF \E i \in 1..Len(line) :
           SubSeq(line, i, i) = " " /\ Exists(SliceFrom(line, i))
    THEN CHOOSE i \in 1..Len(line) :
           /\ SubSeq(line, i, i) = " " /\ Exists(SliceFrom(line, i))
           /\ \A j \in 1..(i - 1) :
                ~(SubSeq(line, j, j) = " " /\ Exists(SliceFrom(line, j)))
    ELSE 0

\* lines 86-95: the characters from i down to the first: the position of the
\* first space met whose remainder is a path that exists, 0 when there is none
RECURSIVE BoundaryFrom(_, _)
BoundaryFrom(line, i) ==
    IF i = 0 THEN 0
    ELSE IF SubSeq(line, i, i) = " " /\ Exists(SliceFrom(line, i)) THEN i
    ELSE BoundaryFrom(line, i - 1)

\* lines 86-95: the loop over the characters of the line, in reverse
Boundary(line) == BoundaryFrom(line, Len(line))

\* lines 84-99: the loop over the lines of stdout, from line k
RECURSIVE FindPrefix(_, _)
FindPrefix(lines, k) ==
    IF k > Len(lines) THEN Err("Failed to detect showIncludes prefix")
    ELSE IF EndsWith(lines[k], "stdio.h") /\ Boundary(lines[k]) # 0
         THEN <<"Ok", SubSeq(lines[k], 1, Boundary(lines[k]))>>
    ELSE FindPrefix(lines, k + 1)

InitDetect ==
    /\ arguments = <<>>
    /\ result = <<>>
    /\ parsed_args = <<>>
    /\ children \in [1..1 -> ChildOutcomes]
    /\ fs \in SUBSET DetectPaths
    /\ pc = "detect"
    /\ cacheable = "unset"
    /\ write = "none"
    /\ tempdir = "none"
    /\ cmds = <<>>
    /\ runs = <<>>
    /\ ret = <<>>
    /\ fs_at_call = {}
    /\ cfg_windows = FALSE
    /\ \E n \in 0..MaxLines :
         \E ls \in [1..n -> StdoutLines] :
           \E e \in LineEnds : stdout_bytes = Unlines(ls, e[1], e[2])
    /\ stderr_bytes = ""
    /\ dep_file = <<>>
    /\ io_fail = "none"

\* lines 52-54: the write of test.c is handed to the pool
DetectCall ==
    /\ pc = "detect"
    /\ write' = "pending"
    /\ pc' = "detect_await"
    /\ UNCHANGED <<parsed_args, children, fs, cacheable, tempdir, cmds, runs,
                   ret, fs_at_call>>
    /\ UNCHANGED parseVars
    /\ UNCHANGED preprocessVars

\* line 58: the write failed, and its error is the value of the chain
DetectWriteFailed ==
    /\ pc = "detect_await"
    /\ write = "err"
    /\ ret' = Err("write_temp_file")
    /\ pc' = "done"
    /\ UNCHANGED <<parsed_args, children, fs, cacheable, write, tempdir, cmds,
                   runs, fs_at_call>>
    /\ UNCHANGED parseVars
    /\ UNCHANGED preprocessVars

\* lines 58-71: the command is taken from the creator and run on the
\* temporary file
DetectStart ==
    /\ pc = "detect_await"
    /\ write = "ok"
    /\ cmds' = <<NewCommand(DetectArgs)>>
    /\ runs' = <<[cmd |-> 1,
                  args |-> Append(DetectArgs, Join(TempDir, "test.c")),
                  outcome |-> "running"]>>
    /\ pc' = "detecting"
    /\ UNCHANGED <<parsed_args, children, fs, cacheable, write, tempdir, ret,
                   fs_at_call>>
    /\ UNCHANGED parseVars
    /\ UNCHANGED preprocessVars

\* lines 71-74: the run resolves and the temporary directory is dropped,
\* with the closure that holds it
DetectExits ==
    /\ pc = "detecting"
    /\ runs' = [runs EXCEPT ![1].outcome = OutcomeOf(cmds[1])]
    /\ tempdir' = "removed"
    /\ pc' = "detected"
    /\ UNCHANGED <<parsed_args, children, fs, cacheable, write, cmds, ret,
                   fs_at_call>>
    /\ UNCHANGED parseVars
    /\ UNCHANGED preprocessVars

\* line 77: an error of the run is the value of the chain
DetectRunError ==
    /\ pc = "detected"
    /\ runs[1].outcome = "error"
    /\ ret' = Err("run_input_output")
    /\ pc' = "done"
    /\ UNCHANGED <<parsed_args, children, fs, cacheable, write, tempdir, cmds,
                   runs, fs_at_call>>
    /\ UNCHANGED parseVars
    /\ UNCHANGED preprocessVars

\* lines 78-99: the status is tested, stdout decoded and its lines searched
DetectPrefix ==
    /\ pc = "detected"
    /\ runs[1].outcome # "error"
    /\ ret' = IF ~Success(ProcessOutput(runs[1].outcome))
              THEN Err("Failed to detect showIncludes prefix")
              ELSE IF from_local_codepage(stdout_bytes)[1] = "Err"
                   THEN Err("from_local_codepage")
              ELSE FindPrefix(Lines(from_local_codepage(stdout_bytes)[2]), 1)
    /\ pc' = "done"
    /\ UNCHANGED <<parsed_args, children, fs, cacheable, write, tempdir, cmds,
                   runs, fs_at_call>>
    /\ UNCHANGED parseVars
    /\ UNCHANGED preprocessVars

NextDetect ==
    \/ DetectCall
    \/ WriteTempFile
    \/ DetectWriteFailed
    \/ DetectStart
    \/ DetectExits
    \/ DetectRunError
    \/ DetectPrefix

SpecDetect == InitDetect /\ [][NextDetect]_vars

(***************************************************************************)
(* Properties of detect_showincludes_prefix, checked under SpecDetect.     *)
(***************************************************************************)
\* the lines of the stdout of the process
StdoutDecoded == Lines(stdout_bytes)

\* the process ran, exited successfully, and its stdout decodes
DetectRan ==
    /\ pc = "done"
    /\ Len(runs) = 1
    /\ children[1] = "exit0"
    /\ \A k \in 1..Len(stdout_bytes) : SubSeq(stdout_bytes, k, k) # BadByte

\* the spaces of the line after which the rest is a path on disk
Boundaries(line) ==
    {i \in 1..Len(line) : SubSeq(line, i, i) = " " /\ Rest(line, i) \in fs}

\* the lines that end with "stdio.h" and have a boundary
Matching ==
    {k \in DOMAIN StdoutDecoded :
        /\ Len(StdoutDecoded[k]) >= 7
        /\ Rest(StdoutDecoded[k], Len(StdoutDecoded[k]) - 7) = "stdio.h"
        /\ Boundaries(StdoutDecoded[k]) # {}}

\* the first of the matching lines
FirstMatching ==
    StdoutDecoded[CHOOSE k \in Matching : \A j \in Matching : k <= j]

\* the rightmost boundary of the line
Rightmost(line) ==
    CHOOSE i \in Boundaries(line) : \A j \in Boundaries(line) : j <= i

HeaderLines ==
    {k \in DOMAIN StdoutDecoded :
        /\ Len(StdoutDecoded[k]) >= 7
        /\ Rest(StdoutDecoded[k], Len(StdoutDecoded[k]) - 7) = "stdio.h"}

\* the compiler process was run and the call has returned
DetectReturned == pc = "done" /\ Len(runs) = 1 /\ runs[1].outcome # "error"

\* C22: detect_showincludes_prefix returns an error, and no prefix, when the
\* compiler process exits non-zero (whatever its stdout holds), when no
\* stdout line ends with "stdio.h", and when no such line has a space after
\* which the rest is a path on disk.
C22_NoPrefixIsAnError ==
    DetectReturned =>
      /\ children[1] = "exit1" => ret[1] = "Err"
      /\ HeaderLines = {} => ret[1] = "Err"
      /\ Matching = {} => ret[1] = "Err"

\* the process exits non-zero and its stdout holds a matching line
C22_Witness ==
    /\ DetectReturned
    /\ children[1] = "exit1"
    /\ Matching # {}
    /\ \A k \in 1..Len(stdout_bytes) : SubSeq(stdout_bytes, k, k) # BadByte
    /\ ret[1] = "Err"

====
